---- MODULE Spec2Model ----
(***************************************************************************)
(* Model of the job processor of licarth/do-it-tomorrow.                   *)
(*                                                                         *)
(* FirestoreProcessor (src/unnamed/part_001) runs a claim loop over three  *)
(* Firestore collections keyed by job id: queued, running and complete.    *)
(* Several processors share the collections.  A processor object holds a   *)
(* state field and the handles (unsubscribe, reject) of its latest wait;   *)
(* every call of run() starts one more claim loop on the same object.      *)
(* Every action below is one asynchronous step of the code together with   *)
(* the synchronous continuation that follows it.                           *)
(*                                                                         *)
(* Spec is the processors with a short queue, SpecWait one processor with  *)
(* a queue longer than a batch, SpecLive the processors without failures   *)
(* under weak fairness, and SpecEval the evaluation of the ScheduledAt     *)
(* query language (src/domain/src/domain/ScheduledAt).                     *)
(***************************************************************************)
EXTENDS Integers, Sequences, FiniteSets, TLC

\* ---------------------------------------------------------------- bounds
NJobs == 2        \* jobs 1..NJobs are scheduled
MaxRuns == 2      \* calls of run(), all processors together
MaxClock == 1     \* readings of the injected clock: 0..MaxClock
NWaitJobs == 6    \* jobs of the long queue, more than one batch holds

\* ------------------------------------------------------------- constants
Limit == 5        \* .limit(5) of the queue query

Procs == {"A", "B"}
Loops == 1..MaxRuns
Jobs == 1..NJobs
Shards == {1, 2}

NoDoc == [status |-> 0, executionLagMs |-> 0, durationMs |-> 0, exists |-> FALSE]

\* scheduledAt of the job documents (an input of the model): the jobs of the
\* queue are due at the first reading of the clock or one tick before it
ScheduledAtOf(j) == (j % 2) - 1

\* ShardingAlgorithm: JobId -> Shard, a pure function of the id
ShardOf(j) == ((j - 1) % 2) + 1

VARIABLES
    registered,   \* jobs scheduled and not yet queued
    queued,       \* ids of the documents of <root>/queued
    running,      \* ids of the documents of <root>/running
    complete,     \* documents of <root>/complete, by id (NoDoc: absent)
    state,        \* FirestoreProcessor.state of each processor
    unsubscribe,  \* FirestoreProcessor.unsubscribe: loop whose wait set it, 0: undefined
    reject,       \* FirestoreProcessor.reject: loop whose wait set it, 0: undefined
    leaked,       \* a listener of a settled wait is still subscribed
    nruns,        \* number of calls of run() so far
    loop,         \* the claim loops started by run()
    now,          \* the injected clock
    owned,        \* shards owned by each node
    claims,       \* history: successful claims of each job
    tried,        \* history: the store has evaluated a claim of the job
    posts,        \* history: calls of the callback endpoint for each job
    queueResult,  \* history: how the last queueJobs of each job ended
    request,      \* a call of ScheduledAt.fromQueryLanguage: the text, the clock
    result        \* what that call has given

vars == <<registered, queued, running, complete, state, unsubscribe, reject,
          leaked, nruns, loop, now, owned, claims, tried, posts, queueResult, request, result>>

store == <<queued, running, complete>>

\* ------------------------------------------------------------ loop states
\* error: the Left a stopped loop has ended with; while claiming, the Left of
\* the claim before, which orElseW has caught, and (at) where its job was
NoLoop ==
    [pc |-> "idle", sub |-> FALSE, docs |-> <<>>, index |-> 0, job |-> 0,
     executionStartDate |-> 0, durationMs |-> 0, status |-> 0, error |-> "none",
     at |-> "none"]

\* a pending wait: the promise of waitForNextJob with its open subscription
Waiting == [NoLoop EXCEPT !.pc = "waiting", !.sub = TRUE]

\* the task of the loop has ended with Left(error)
Stopped(err) == [NoLoop EXCEPT !.pc = "stopped", !.error = err]

\* the state after construction, with the jobs J scheduled
InitWith(J) ==
    /\ registered = J
    /\ queued = {}
    /\ running = {}
    /\ complete = [j \in J |-> NoDoc]
    /\ state = [p \in Procs |-> "idle"]
    /\ unsubscribe = [p \in Procs |-> 0]
    /\ reject = [p \in Procs |-> 0]
    /\ leaked = [p \in Procs |-> FALSE]
    /\ nruns = [p \in Procs |-> 0]
    /\ loop = [p \in Procs |-> [l \in Loops |-> NoLoop]]
    /\ now = 0
    /\ owned = [p \in Procs |-> IF p = "A" THEN Shards ELSE {}]
    /\ claims = [j \in J |-> 0]
    /\ tried = [j \in J |-> FALSE]
    /\ posts = [j \in J |-> 0]
    /\ queueResult = [j \in J |-> "none"]

InitProcessor == InitWith(Jobs)

\* ------------------------------------------------------- the queue query
\* orderBy("scheduledAt", "asc"); documents with equal keys come by id
Before(a, b) ==
    \/ ScheduledAtOf(a) < ScheduledAtOf(b)
    \/ ScheduledAtOf(a) = ScheduledAtOf(b) /\ a < b

\* the documents of a snapshot of the query: the first Limit of the queue
QuerySnapshot_Unlimited == queued

QuerySnapshot ==
    {j \in queued : Cardinality({k \in queued : Before(k, j)}) < Limit}

\* _.shuffle(snapshot.docs): every order of the documents
Shuffle(S) ==
    {d \in [1..Cardinality(S) -> S] : \A a, b \in 1..Cardinality(S) : d[a] = d[b] => a = b}

\* ------------------------------------------------ handles of the processor
\* this.unsubscribe && this.unsubscribe(): ends the subscription set last
Unsubscribed(lp, p) ==
    IF unsubscribe[p] = 0 THEN lp ELSE [lp EXCEPT ![p][unsubscribe[p]].sub = FALSE]

\* this.reject && this.reject(): the wait set last, when still pending, fails
Rejected(lp, p) ==
    IF reject[p] # 0 /\ lp[p][reject[p]].pc = "waiting"
    THEN [lp EXCEPT ![p][reject[p]] = Stopped("Could not get next job")]
    ELSE lp

\* waitForNextJob() called by loop l of processor p when its state is st:
\* the loop after the call, and the handles it leaves in the processor
WaitForNextJob_Unchecked(st) == Waiting

WaitForNextJob(st) ==
    IF st = "closed" THEN Stopped("Processor is not running") ELSE Waiting

HandleAfterWait(h, p, l, st) ==
    IF st = "closed" THEN h ELSE [h EXCEPT ![p] = l]

\* ------------------------------------------------------------ operations
\* spec-modelled: queueJobs([j]) moves a job from registered to queued; it
\* fails, and changes nothing, for a job that is not registered any more
QueueTxOk_Always(j) == TRUE

QueueTxOk(j) == j \in registered

QueueJobs(j) ==
    /\ IF QueueTxOk(j)
       THEN /\ registered' = registered \ {j}
            /\ queued' = queued \cup {j}
            /\ queueResult' = [queueResult EXCEPT ![j] = "ok"]
       ELSE /\ UNCHANGED <<registered, queued>>
            /\ queueResult' = [queueResult EXCEPT ![j] = "failed"]
    /\ UNCHANGED <<running, complete, state, unsubscribe, reject, leaked, nruns,
                   loop, now, owned, claims, tried, posts, request, result>>

RECURSIVE SumRuns(_)
SumRuns(P) ==
    IF P = {} THEN 0 ELSE LET p == CHOOSE q \in P : TRUE IN nruns[p] + SumRuns(P \ {p})

TotalRuns == SumRuns(Procs)

\* run(): state = "running", then takeNextJob()() starts one more loop
Run(p) ==
    /\ TotalRuns < MaxRuns
    /\ LET l == nruns[p] + 1 IN
        /\ state' = [state EXCEPT ![p] = "running"]
        /\ nruns' = [nruns EXCEPT ![p] = l]
        /\ loop' = [loop EXCEPT ![p][l] = WaitForNextJob(state'[p])]
        /\ unsubscribe' = HandleAfterWait(unsubscribe, p, l, state'[p])
        /\ reject' = HandleAfterWait(reject, p, l, state'[p])
    /\ UNCHANGED <<registered, queued, running, complete, leaked, now, owned, claims, tried, posts, queueResult, request, result>>

\* the documents of the queue decode: they are written with the codec the
\* loop reads them with.
\* the onSnapshot listener of the pending wait of loop l gets a non-empty
\* snapshot: it ends the subscription set last, resolves the wait, and the
\* loop starts the claim of the first document of the shuffled batch
OnSnapshot(p, l) ==
    /\ loop[p][l].pc = "waiting"
    /\ loop[p][l].sub
    /\ QuerySnapshot # {}
    /\ \E d \in Shuffle(QuerySnapshot) :
        loop' = [Unsubscribed(loop, p) EXCEPT
                    ![p][l] = [NoLoop EXCEPT !.pc = "claiming", !.docs = d, !.index = 1]]
    /\ leaked' = [leaked EXCEPT ![p] = leaked[p] \/ unsubscribe[p] # l]
    /\ UNCHANGED <<registered, queued, running, complete, state, unsubscribe, reject,
                   nruns, now, owned, claims, tried, posts, queueResult, request, result>>

\* a listener left subscribed by a settled wait gets a non-empty snapshot:
\* it ends the subscription set last; its resolve has no effect any more
OnSnapshotLeaked(p) ==
    /\ leaked[p]
    /\ QuerySnapshot # {}
    /\ loop' = Unsubscribed(loop, p)
    /\ UNCHANGED <<registered, queued, running, complete, state, unsubscribe, reject,
                   leaked, nruns, now, owned, claims, tried, posts, queueResult, request, result>>

\* the error callback of onSnapshot rejects the wait of loop l
OnSnapshotError(p, l) ==
    /\ loop[p][l].pc = "waiting"
    /\ loop[p][l].sub
    /\ loop' = [loop EXCEPT ![p][l] = Stopped("Could not get next job")]
    /\ UNCHANGED <<registered, queued, running, complete, state, unsubscribe, reject,
                   leaked, nruns, now, owned, claims, tried, posts, queueResult, request, result>>

\* outcomes of a Firestore transaction that its preconditions do not decide:
\* none, an error that carries a code (the backend is unavailable), an error
\* that carries none (thrown by the client before the commit)
Faults == {"none", "firebase", "other"}

\* where a job is when a claim is attempted
Lifecycle(j) ==
    IF j \in running THEN "running"
    ELSE IF complete[j].exists THEN "complete"
    ELSE IF j \in queued THEN "queued"
    ELSE "registered"

\* the preconditions of the claim transaction: delete(queued/j, {exists: true})
\* and create(running/j)
ClaimTxOk_Unchecked(j) == TRUE

ClaimTxOk_NoExists(j) == j \notin running

ClaimTxOk(j) == j \in queued /\ j \notin running

\* the error markJobAsRunning fails with: isFirebaseError(e) gives the
\* "already taken" error, any other error is thrown again as it is
ClaimError(fault) ==
    IF fault \in {"none", "firebase"} THEN "already taken" ELSE "other error"

\* orElseW(() => takeFirstValidAvailableJob(docs, index + 1)): the loop after
\* a failed claim, with the state st of its processor
TakeNext_GiveUp(rec, err, at, st) == WaitForNextJob(st)

TakeNext(rec, err, at, st) ==
    IF rec.index < Len(rec.docs)
    THEN [rec EXCEPT !.index = rec.index + 1, !.error = err, !.at = at]
    ELSE WaitForNextJob(st)

\* the claim transaction of loop l answers; on success processJob starts:
\* it reads the clock and posts the callback
MarkJobAsRunning(p, l, fault) ==
    /\ loop[p][l].pc = "claiming"
    /\ LET rec == loop[p][l]
           j == rec.docs[rec.index]
           ok == fault = "none" /\ ClaimTxOk(j)
           next == TakeNext(rec, ClaimError(fault), Lifecycle(j), state[p])
       IN
        /\ tried' = [tried EXCEPT ![j] = @ \/ fault = "none"]
        /\ claims' = [claims EXCEPT ![j] = IF ok THEN @ + 1 ELSE @]
        /\ posts' = [posts EXCEPT ![j] = IF ok THEN @ + 1 ELSE @]
        /\ IF ok
           THEN /\ queued' = queued \ {j}
                /\ running' = running \cup {j}
                /\ loop' = [loop EXCEPT ![p][l] =
                        [NoLoop EXCEPT !.pc = "executing", !.job = j,
                                       !.executionStartDate = now]]
                /\ UNCHANGED <<unsubscribe, reject>>
           ELSE /\ UNCHANGED <<queued, running>>
                /\ loop' = [loop EXCEPT ![p][l] = next]
                /\ IF next.pc = "waiting"
                   THEN /\ unsubscribe' = [unsubscribe EXCEPT ![p] = l]
                        /\ reject' = [reject EXCEPT ![p] = l]
                   ELSE UNCHANGED <<unsubscribe, reject>>
    /\ UNCHANGED <<registered, complete, state, leaked, nruns, now, owned, queueResult, request, result>>

\* answers of the callback endpoint: a 2xx status, another status, none
Responses == {200, 500, 0}

\* axios.post resolves on a 2xx status and throws otherwise
AxiosResolves(resp) == resp >= 200 /\ resp < 300

\* the callback answers: processJob measures the duration and starts the
\* completion transaction, or fails with what axios has thrown
CallbackReturn(p, l, resp) ==
    /\ loop[p][l].pc = "executing"
    /\ loop' = [loop EXCEPT ![p][l] =
            IF AxiosResolves(resp)
            THEN [loop[p][l] EXCEPT
                    !.pc = "completing", !.status = resp,
                    !.durationMs = now - loop[p][l].executionStartDate]
            ELSE Stopped("callback failed")]
    /\ UNCHANGED <<registered, queued, running, complete, state, unsubscribe, reject,
                   leaked, nruns, now, owned, claims, tried, posts, queueResult, request, result>>

\* the preconditions of the completion transaction: create(complete/j) and
\* delete(running/j, {exists: true})
CompleteTxOk(j) == ~complete[j].exists /\ j \in running

CompletionRecord_LagAtCompletion(rec) ==
    [status |-> rec.status,
     executionLagMs |-> now - ScheduledAtOf(rec.job),
     durationMs |-> rec.durationMs,
     exists |-> TRUE]

CompletionRecord(rec) ==
    [status |-> rec.status,
     executionLagMs |-> rec.executionStartDate - ScheduledAtOf(rec.job),
     durationMs |-> rec.durationMs,
     exists |-> TRUE]

RunningAfterComplete_Kept(j) == running

RunningAfterComplete(j) == running \ {j}

\* the completion transaction of loop l answers; on success takeNextJob()
\* recurses, on failure the error is logged and the task ends with Left
MarkJobAsComplete(p, l, fault) ==
    /\ loop[p][l].pc = "completing"
    /\ LET rec == loop[p][l]
           j == rec.job
           ok == fault = "none" /\ CompleteTxOk(j)
           next == WaitForNextJob(state[p])
       IN
        IF ok
        THEN /\ complete' = [complete EXCEPT ![j] = CompletionRecord(rec)]
             /\ running' = RunningAfterComplete(j)
             /\ loop' = [loop EXCEPT ![p][l] = next]
             /\ unsubscribe' = HandleAfterWait(unsubscribe, p, l, state[p])
             /\ reject' = HandleAfterWait(reject, p, l, state[p])
        ELSE /\ loop' = [loop EXCEPT ![p][l] = Stopped("completion not recorded")]
             /\ UNCHANGED <<complete, running, unsubscribe, reject>>
    /\ UNCHANGED <<registered, queued, state, leaked, nruns, now, owned, claims, tried, posts, queueResult, request, result>>

\* close(): state = "closed", this.unsubscribe(), this.reject()
Close(p) ==
    /\ state' = [state EXCEPT ![p] = "closed"]
    /\ loop' = Rejected(Unsubscribed(loop, p), p)
    /\ UNCHANGED <<registered, queued, running, complete, unsubscribe, reject, leaked,
                   nruns, now, owned, claims, tried, posts, queueResult, request, result>>

\* the injected clock advances
Tick ==
    /\ now < MaxClock
    /\ now' = now + 1
    /\ UNCHANGED <<registered, queued, running, complete, state, unsubscribe, reject,
                   leaked, nruns, loop, owned, claims, tried, posts, queueResult, request, result>>

\* spec-modelled: the coordination service gives node B shard 2, or takes it back
Partitions ==
    {[p \in Procs |-> IF p = "A" THEN Shards ELSE {}],
     [p \in Procs |-> IF p = "A" THEN {1} ELSE {2}]}

Rebalance ==
    /\ \E o \in Partitions : o # owned /\ owned' = o
    /\ UNCHANGED <<registered, queued, running, complete, state, unsubscribe, reject,
                   leaked, nruns, loop, now, claims, tried, posts, queueResult, request, result>>

\* ----------------------------------------- the ScheduledAt query language
\* A Date is a day number (days since 1970-01-01) with the milliseconds of
\* that day; the local time zone is UTC.  InvalidDate is the Date whose time
\* value is NaN: it is a Date object all the same.
InvalidDate == [valid |-> FALSE, day |-> 0, ms |-> 0]

IsLeapYear(y) == (y % 4 = 0 /\ y % 100 # 0) \/ y % 400 = 0

DaysInMonth(y, m) ==
    IF m = 2 THEN (IF IsLeapYear(y) THEN 29 ELSE 28)
    ELSE IF m \in {4, 6, 9, 11} THEN 30 ELSE 31

\* day number of the civil date y-m-d (m in 1..12) of the Gregorian calendar
DaysFromCivil(y, m, d) ==
    LET yy == IF m <= 2 THEN y - 1 ELSE y
        era == yy \div 400
        yoe == yy - era * 400
        mp == IF m > 2 THEN m - 3 ELSE m + 9
        doy == (153 * mp + 2) \div 5 + d - 1
        doe == yoe * 365 + yoe \div 4 - yoe \div 100 + doy
    IN era * 146097 + doe - 719468

\* getFullYear(), getMonth() (0..11) and getDate() of a day number
CivilFromDays(z) ==
    LET zz == z + 719468
        era == zz \div 146097
        doe == zz - era * 146097
        yoe == (doe - doe \div 1460 + doe \div 36524 - doe \div 146096) \div 365
        doy == doe - (365 * yoe + yoe \div 4 - yoe \div 100)
        mp == (5 * doy + 2) \div 153
        m == IF mp < 10 THEN mp + 3 ELSE mp - 9
    IN [fullYear |-> yoe + era * 400 + (IF m <= 2 THEN 1 ELSE 0),
        month |-> m - 1,
        date |-> doy - (153 * mp + 2) \div 5 + 1]

\* new Date(year, monthIndex, day, ...time of day): a month index outside
\* 0..11 carries into the year, a day past the end of the month carries into
\* the next month
NewDate(year, monthIndex, day, ms) ==
    [valid |-> TRUE,
     day |-> DaysFromCivil(year + monthIndex \div 12, (monthIndex % 12) + 1, 1) + day - 1,
     ms |-> ms]

\* new Date(date.getTime() + x)
AddMs(date, x) ==
    IF ~date.valid THEN InvalidDate
    ELSE LET t == date.ms + x
         IN [valid |-> TRUE,
             day |-> date.day + t \div (24 * 60 * 60 * 1000),
             ms |-> t % (24 * 60 * 60 * 1000)]

\* new Date(getFullYear() + years, getMonth() + months, getDate(), ...)
AddMonths(date, years, months) ==
    IF ~date.valid THEN InvalidDate
    ELSE LET f == CivilFromDays(date.day)
         IN NewDate(f.fullYear + years, f.month + months, f.date, date.ms)

\* parse(dateString, "yyyy-MM-dd'T'HH:mm:ss.SSSxxx", new Date()) of date-fns:
\* the date of a text of that format whose fields are in range, and Invalid
\* Date, without an exception, for every other text
Parse(dateString) ==
    IF /\ dateString.kind = "timestamp"
       /\ dateString.mo \in 1..12
       /\ dateString.d \in 1..DaysInMonth(dateString.y, dateString.mo)
       /\ dateString.ms \in 0..(24 * 60 * 60 * 1000 - 1)
    THEN NewDate(dateString.y, dateString.mo - 1, dateString.d, dateString.ms)
    ELSE InvalidDate

Digits == {"0", "1", "2", "3", "4", "5", "6", "7", "8", "9"}

DigitValue ==
    "0" :> 0 @@ "1" :> 1 @@ "2" :> 2 @@ "3" :> 3 @@ "4" :> 4 @@
    "5" :> 5 @@ "6" :> 6 @@ "7" :> 7 @@ "8" :> 8 @@ "9" :> 9

\* the first group of the regexp, [+-]?\s*\d+, matches the whole amount
AmountMatches(a) ==
    LET sl == IF Len(a) > 0 /\ a[1] \in {"+", "-"} THEN 1 ELSE 0
    IN \E sp \in sl..(Len(a) - 1) :
            /\ \A i \in (sl + 1)..sp : a[i] = " "
            /\ \A i \in (sp + 1)..Len(a) : a[i] \in Digits

\* the second group of the regexp: the unit spellings it matches
RegexpUnits ==
    {"s", "m", "h", "d", "second", "seconds", "months", "month", "year", "years"}

RECURSIVE DigitsValue(_)
DigitsValue(ds) ==
    IF ds = <<>> THEN 0
    ELSE DigitsValue(SubSeq(ds, 1, Len(ds) - 1)) * 10 + DigitValue[ds[Len(ds)]]

\* Number(match[1].replace(/\s/g, ""))
Number(a) ==
    LET t == SelectSeq(a, LAMBDA c : c # " ")
    IN IF t[1] = "-" THEN 0 - DigitsValue(Tail(t))
       ELSE IF t[1] = "+" THEN DigitsValue(Tail(t))
       ELSE DigitsValue(t)

Return(date) == [tag |-> "right", date |-> date, error |-> "none"]

Throw(error) == [tag |-> "left", date |-> InvalidDate, error |-> error]

NoResult == [tag |-> "none", date |-> InvalidDate, error |-> "none"]

\* the units the switch has a case for: "month" || "months" is "month", and
\* "year" || "years" is "year"
SwitchUnits == {"s", "m", "h", "d", "month", "year"}

\* evaluate(s)({clock}); s is given as split("|") leaves it, a date string
\* followed by operations, an operation as its operator, the characters of
\* its amount and its unit
Evaluate(s, clock) ==
    LET date == IF s.dateString.kind = "now" THEN clock ELSE Parse(s.dateString)
    IN
    IF Len(s.operations) = 0 THEN Return(date)
    ELSE IF Len(s.operations) > 1 THEN Throw("max. one operation")
    ELSE LET operation == s.operations[1]
             unit == operation.unit
         IN
         IF operation.operator # "add" THEN Throw("Unknown operation")
         ELSE IF ~(AmountMatches(operation.amount) /\ unit \in RegexpUnits)
         THEN Throw("Cannot parse amountAndUnit")
         ELSE LET amount == Number(operation.amount)
              IN
              IF unit \notin SwitchUnits THEN Throw("Unknown unit")
              ELSE IF unit = "s" THEN Return(AddMs(date, amount * 1000))
              ELSE IF unit = "m" THEN Return(AddMs(date, amount * 60 * 1000))
              ELSE IF unit = "h" THEN Return(AddMs(date, amount * 60 * 60 * 1000))
              ELSE IF unit = "d" THEN Return(AddMs(date, amount * 24 * 60 * 60 * 1000))
              ELSE IF unit \in {"month", "months"} THEN Return(AddMonths(date, 0, amount))
              ELSE Return(AddMonths(date, amount, 0))

\* inputs of the evaluation
DateStrings ==
    {[kind |-> "now", y |-> 0, mo |-> 0, d |-> 0, ms |-> 0],
     [kind |-> "timestamp", y |-> 2021, mo |-> 1, d |-> 1, ms |-> 0],
     [kind |-> "timestamp", y |-> 2021, mo |-> 13, d |-> 1, ms |-> 0],
     [kind |-> "timestamp", y |-> 2021, mo |-> 2, d |-> 30, ms |-> 0],
     [kind |-> "text", y |-> 0, mo |-> 0, d |-> 0, ms |-> 0]}

Amounts ==
    {<<"3">>, <<"-", "1">>, <<"+", " ", "1", "2">>, <<"0">>,
     <<"1", ".", "5">>, <<"h">>, <<>>}

Units ==
    RegexpUnits \cup {"minute", "minutes", "hour", "hours", "day", "days", "w", ""}

Operations == [operator : {"add", "sub"}, amount : Amounts, unit : Units]

QueryLangStrings ==
    [dateString : DateStrings,
     operations : {<<>>} \cup {<<o>> : o \in Operations}
                  \cup {<<o, o>> : o \in {p \in Operations : p.amount = <<"3">>}}]

Clocks ==
    {NewDate(2021, 0, 15, 10 * 60 * 60 * 1000),
     NewDate(2020, 1, 29, 24 * 60 * 60 * 1000 - 1),
     NewDate(2021, 11, 31, 0)}

NoRequest ==
    [s |-> [dateString |-> [kind |-> "now", y |-> 0, mo |-> 0, d |-> 0, ms |-> 0],
            operations |-> <<>>],
     clock |-> InvalidDate]

\* ScheduledAt.fromQueryLanguage: TE.tryCatch turns what evaluate throws
\* into a Left and what it returns into a Right
FromQueryLanguage ==
    /\ result = NoResult
    /\ request # NoRequest
    /\ result' = Evaluate(request.s, request.clock)
    /\ UNCHANGED <<registered, queued, running, complete, state, unsubscribe, reject,
                   leaked, nruns, loop, now, owned, claims, tried, posts,
                   queueResult, request>>

InitEval ==
    /\ InitProcessor
    /\ request \in [s : QueryLangStrings, clock : Clocks]
    /\ result = NoResult

NextEval == FromQueryLanguage

SpecEval == InitEval /\ [][NextEval]_vars

Init ==
    /\ InitProcessor
    /\ request = NoRequest
    /\ result = NoResult

Next ==
    \/ \E j \in Jobs : QueueJobs(j)
    \/ \E p \in Procs : Run(p)
    \/ \E p \in Procs, l \in Loops : OnSnapshot(p, l)
    \/ \E p \in Procs : OnSnapshotLeaked(p)
    \/ \E p \in Procs, l \in Loops : OnSnapshotError(p, l)
    \/ \E p \in Procs, l \in Loops, f \in Faults : MarkJobAsRunning(p, l, f)
    \/ \E p \in Procs, l \in Loops, r \in Responses : CallbackReturn(p, l, r)
    \/ \E p \in Procs, l \in Loops, f \in Faults : MarkJobAsComplete(p, l, f)
    \/ \E p \in Procs : Close(p)
    \/ Tick
    \/ Rebalance

Spec == Init /\ [][Next]_vars

\* one processor, run once, in front of a queue longer than a batch; every
\* job is queued once and the clock stands still
WaitJobs == 1..NWaitJobs

InitWait ==
    /\ InitWith(WaitJobs)
    /\ request = NoRequest
    /\ result = NoResult

NextWait ==
    \/ \E j \in registered : QueueJobs(j)
    \/ nruns["A"] = 0 /\ Run("A")
    \/ \E l \in Loops : OnSnapshot("A", l)
    \/ \E l \in Loops : OnSnapshotError("A", l)
    \/ \E l \in Loops, f \in Faults : MarkJobAsRunning("A", l, f)
    \/ \E l \in Loops, r \in Responses : CallbackReturn("A", l, r)
    \/ \E l \in Loops, f \in Faults : MarkJobAsComplete("A", l, f)
    \/ Close("A")

SpecWait == InitWait /\ [][NextWait]_vars

\* the processors when nothing fails and nobody calls close(): every
\* transaction is decided by its preconditions, every callback answers 200.
\* Firestore delivers a snapshot to an open subscription, a transaction gets
\* its answer and the callback endpoint answers: these steps are weakly fair;
\* the calls of run() and queueJobs are the environment's and are not.
NextLive ==
    \/ \E j \in registered : QueueJobs(j)
    \/ \E p \in Procs : Run(p)
    \/ \E p \in Procs, l \in Loops : OnSnapshot(p, l)
    \/ \E p \in Procs : OnSnapshotLeaked(p)
    \/ \E p \in Procs, l \in Loops : MarkJobAsRunning(p, l, "none")
    \/ \E p \in Procs, l \in Loops : CallbackReturn(p, l, 200)
    \/ \E p \in Procs, l \in Loops : MarkJobAsComplete(p, l, "none")

Fairness ==
    \A p \in Procs :
        /\ WF_vars(OnSnapshotLeaked(p))
        /\ \A l \in Loops :
            /\ WF_vars(OnSnapshot(p, l))
            /\ WF_vars(MarkJobAsRunning(p, l, "none"))
            /\ WF_vars(CallbackReturn(p, l, 200))
            /\ WF_vars(MarkJobAsComplete(p, l, "none"))

SpecLive == Init /\ [][NextLive]_vars /\ Fairness

\* ------------------------------------------------------------------ claims

\* C1: when several workers attempt markJobAsRunning(J) for a queued job J, in
\* any interleaving, exactly one attempt succeeds: a claim the store evaluates
\* succeeds when J is in the queue, fails with the "already taken" error and
\* changes nothing when it is not, and as soon as the store has evaluated a
\* claim of J exactly one claim of J has succeeded.
C1_ExactlyOneClaimSucceeds ==
    [][/\ \A p \in Procs, l \in Loops :
            MarkJobAsRunning(p, l, "none") =>
                LET j == loop[p][l].docs[loop[p][l].index] IN
                IF j \in queued
                THEN /\ claims'[j] = claims[j] + 1
                     /\ loop'[p][l].pc = "executing"
                     /\ loop'[p][l].job = j
                ELSE /\ claims'[j] = claims[j]
                     /\ UNCHANGED store
                     /\ loop'[p][l].pc = "claiming" => loop'[p][l].error = "already taken"
       /\ \A j \in Jobs : claims'[j] <= 1 /\ (tried'[j] => claims'[j] = 1)
      ]_vars

\* C1 witness: two workers have attempted the same job; one has claimed it and
\* executes it, the other has failed with "already taken" and has moved on
C1_Witness ==
    \E j \in Jobs, p, q \in Procs, l, m \in Loops :
        /\ <<p, l>> # <<q, m>>
        /\ claims[j] = 1
        /\ loop[p][l].pc = "executing" /\ loop[p][l].job = j
        /\ loop[q][m].pc = "claiming" /\ loop[q][m].index = 2
        /\ loop[q][m].docs[1] = j
        /\ loop[q][m].error = "already taken" /\ loop[q][m].at = "running"

\* C2: in every reachable state every job is between a successful claim and
\* the end of its execution under at most one worker.
C2_AtMostOneWorkerPerJob ==
    \A j \in Jobs :
        Cardinality({w \in Procs \X Loops :
            /\ loop[w[1]][w[2]].pc \in {"executing", "completing"}
            /\ loop[w[1]][w[2]].job = j}) <= 1

\* C2 witness: node A executes a job of a shard that node B owns now, and B,
\* which was presented the same job, has tried to claim it and has failed
C2_Witness ==
    \E j \in Jobs, l, m \in Loops :
        /\ ShardOf(j) \in owned["B"]
        /\ loop["A"][l].pc = "executing" /\ loop["A"][l].job = j
        /\ loop["B"][m].pc = "claiming" /\ loop["B"][m].index = 2
        /\ loop["B"][m].docs[1] = j /\ loop["B"][m].at = "running"

C4_NextCandidateOnAlreadyTaken ==
    [][\A p \in Procs, l \in Loops, f \in {"none", "firebase"} :
        MarkJobAsRunning(p, l, f) =>
            LET rec == loop[p][l]
                j == rec.docs[rec.index]
            IN
            /\ state'[p] = state[p]
            /\ IF f = "none" /\ j \in queued
               THEN loop'[p][l].pc = "executing" /\ loop'[p][l].job = j
               ELSE IF rec.index < Len(rec.docs)
               THEN /\ loop'[p][l].pc = "claiming"
                    /\ loop'[p][l].docs = rec.docs
                    /\ loop'[p][l].index = rec.index + 1
               ELSE loop'[p][l].pc = IF state[p] = "closed" THEN "stopped" ELSE "waiting"
      ]_vars

\* C4 witness: the first candidate of a batch was taken by another worker and
\* the loop is claiming the second one
C4_Witness ==
    \E p \in Procs, l \in Loops :
        /\ state[p] = "running"
        /\ loop[p][l].pc = "claiming" /\ loop[p][l].index = 2
        /\ loop[p][l].error = "already taken" /\ loop[p][l].at = "running"
        /\ loop[p][l].docs[2] \in queued

\* C5, as the specification states it: a claim transaction that fails with an
\* error other than the precondition failure ends the loop with that error;
\* the loop does not go on to another candidate or to another wait.
C5_OtherErrorsPropagate ==
    [][\A p \in Procs, l \in Loops, f \in {"firebase", "other"} :
        MarkJobAsRunning(p, l, f) => loop'[p][l].pc = "stopped"
      ]_vars

\* C6, as the specification states it: when the completion transaction fails
\* the job stays in running and the loop of a running Processor goes on to
\* wait for further jobs.
C6_LoopSurvivesCompletionFailure ==
    [][\A p \in Procs, l \in Loops, f \in Faults :
        (MarkJobAsComplete(p, l, f) /\ ~(f = "none" /\ CompleteTxOk(loop[p][l].job))) =>
            /\ loop[p][l].job \in running'
            /\ state[p] = "running" => loop'[p][l].pc = "waiting"
      ]_vars

\* C7, as the specification states it: when the callback answers with a
\* status outside 2xx, or does not answer, the loop does not end: it goes on
\* to record the outcome in the completion record of the job.
C7_CallbackFailureIsRecorded ==
    [][\A p \in Procs, l \in Loops, r \in Responses :
        (CallbackReturn(p, l, r) /\ ~(r >= 200 /\ r < 300)) =>
            /\ loop'[p][l].pc = "completing"
            /\ loop'[p][l].job = loop[p][l].job
      ]_vars

\* C8, as the specification states it: the state of a Processor moves only
\* idle -> running -> closed; once closed it stays closed and no claim loop
\* is started on it.
C8_ClosedIsTerminal ==
    [][\A p \in Procs :
        /\ state'[p] # state[p] =>
              <<state[p], state'[p]>> \in {<<"idle", "running">>, <<"running", "closed">>,
                                           <<"idle", "closed">>}
        /\ state[p] = "closed" =>
              /\ state'[p] = "closed"
              /\ \A l \in Loops : loop[p][l].pc = "idle" => loop'[p][l].pc = "idle"
      ]_vars

\* C9, as the specification states it: close() leaves the Processor closed
\* with no wait pending; whatever reaches the wait step of a closed Processor
\* fails at once, so a closed Processor never has a pending wait.
C9_NoPendingWaitOnceClosed ==
    \A p \in Procs : state[p] = "closed" => \A l \in Loops : loop[p][l].pc # "waiting"

\* C10: a successful markJobAsComplete(J) writes the completion record of J,
\* with the callback status, the execution lag and the duration, and removes
\* the running record of J in one step; a failing one changes nothing; so a
\* claimed job is in exactly one of running and complete in every state.
C10_CompleteIsAtomic ==
    [][/\ \A p \in Procs, l \in Loops, f \in Faults :
            MarkJobAsComplete(p, l, f) =>
                LET rec == loop[p][l]
                    j == rec.job
                IN
                IF f = "none" /\ j \in running /\ ~complete[j].exists
                THEN /\ complete'[j].exists
                     /\ complete'[j].status = rec.status
                     /\ complete'[j].executionLagMs =
                            rec.executionStartDate - ScheduledAtOf(j)
                     /\ complete'[j].durationMs = rec.durationMs
                     /\ j \notin running'
                     /\ \A k \in Jobs \ {j} : complete'[k] = complete[k]
                     /\ running' \cup {j} = running
                ELSE UNCHANGED store
       /\ \A j \in Jobs :
            /\ ~(j \in running' /\ complete'[j].exists)
            /\ claims'[j] >= 1 => (j \in running' \/ complete'[j].exists)
      ]_vars

\* C10 witness: a job that started one tick late and took one tick to execute
\* has its completion record, with status 200, and no running record
C10_Witness ==
    \E j \in Jobs :
        /\ complete[j].exists /\ j \notin running
        /\ complete[j].status = 200 /\ complete[j].durationMs = 1
        /\ complete[j].executionLagMs = 1

\* C11: queueJobs is idempotent-once: for every job J a queueJobs([J]) that
\* comes after a successful one fails and changes nothing in the store, and J
\* enters the queue once only, on the first call, in whatever state of J's
\* processing the later call arrives.
C11_QueueJobsOnce ==
    [][/\ \A j \in Jobs :
            (QueueJobs(j) /\ queueResult[j] # "none") =>
                /\ queueResult'[j] = "failed"
                /\ UNCHANGED <<registered, store>>
       /\ \A j \in Jobs :
            (j \notin queued /\ j \in queued') => queueResult[j] = "none"
      ]_vars

\* C11 witness: a second queueJobs([J]) has failed while J is still queued, and
\* another has failed for a job that is complete
C11_Witness ==
    /\ \E j \in Jobs : queueResult[j] = "failed" /\ j \in queued
    /\ \E j \in Jobs : queueResult[j] = "failed" /\ complete[j].exists

\* C12: once a job has a completion record, no step changes or removes that
\* record, and no step leaves the job queued or running: completion records
\* are append-only and a completed job is never queued or claimed again.
C12_CompleteIsFinal ==
    [][\A j \in Jobs :
            complete[j].exists =>
                /\ complete'[j] = complete[j]
                /\ j \notin queued'
                /\ j \notin running'
      ]_vars

\* C12 witness: a job is complete, a later queueJobs of it has failed, and a
\* worker that held it as a stale candidate has tried to claim it and failed
C12_Witness ==
    \E j \in Jobs, p \in Procs, l \in Loops :
        /\ complete[j].exists /\ queueResult[j] = "failed"
        /\ loop[p][l].pc = "claiming" /\ loop[p][l].at = "complete"
        /\ loop[p][l].docs[loop[p][l].index - 1] = j

\* C13, as the specification states it: a Processor instance works on one job
\* at a time: it holds at most one job that it has claimed and not finished
\* executing and completing, and while it holds one it neither waits for a
\* batch nor tries to claim a candidate.
C13_OneJobAtATime ==
    \A p \in Procs :
        LET busy == {l \in Loops : loop[p][l].pc \in {"executing", "completing"}}
            asking == {l \in Loops : loop[p][l].pc \in {"waiting", "claiming"}}
        IN /\ Cardinality(busy) <= 1
           /\ busy # {} => asking = {}

\* C14, as the specification states it: with the clock at T, 'now | add N<unit>'
\* succeeds for every integer N and every unit spelling the parser accepts,
\* and gives T shifted by N seconds, minutes, hours or days, or the same day
\* and time N months or years later (where that day exists).
C14_AddShiftsNow ==
    LET s == request.s
        T == request.clock
    IN
    (/\ result # NoResult
     /\ s.dateString.kind = "now"
     /\ Len(s.operations) = 1
     /\ s.operations[1].operator = "add"
     /\ AmountMatches(s.operations[1].amount)
     /\ s.operations[1].unit \in RegexpUnits)
    => LET n == Number(s.operations[1].amount)
           u == s.operations[1].unit
           f == CivilFromDays(T.day)
           months == IF u \in {"month", "months"} THEN n
                     ELSE IF u \in {"year", "years"} THEN 12 * n ELSE 0
           ty == f.fullYear + (f.month + months) \div 12
           tm == ((f.month + months) % 12) + 1
           unitMs == IF u \in {"s", "second", "seconds"} THEN 1000
                     ELSE IF u = "m" THEN 60 * 1000
                     ELSE IF u = "h" THEN 60 * 60 * 1000
                     ELSE 24 * 60 * 60 * 1000
       IN /\ result.tag = "right"
          /\ result.date.valid
          /\ IF u \in {"month", "months", "year", "years"}
             THEN f.date <= DaysInMonth(ty, tm) =>
                    /\ CivilFromDays(result.date.day) =
                            [fullYear |-> ty, month |-> tm - 1, date |-> f.date]
                    /\ result.date.ms = T.ms
             ELSE (result.date.day - T.day) * (24 * 60 * 60 * 1000)
                    + (result.date.ms - T.ms) = n * unitMs

\* C15, as the specification states it: evaluating fails, and returns no date,
\* for every input outside the grammar: a timestamp that is malformed, more
\* than one operation, an operation other than add, a malformed amount or an
\* unknown unit.
C15_OutsideGrammarFails ==
    LET s == request.s
        ds == s.dateString
        malformedTimestamp ==
            /\ ds.kind # "now"
            /\ ~(/\ ds.kind = "timestamp"
                 /\ ds.mo \in 1..12
                 /\ ds.d \in 1..DaysInMonth(ds.y, ds.mo))
        badOperation ==
            /\ Len(s.operations) = 1
            /\ \/ s.operations[1].operator # "add"
               \/ ~AmountMatches(s.operations[1].amount)
               \/ s.operations[1].unit \in {"w", ""}
    IN (/\ result # NoResult
        /\ malformedTimestamp \/ Len(s.operations) > 1 \/ badOperation)
       => result.tag = "left"

\* C16: a job's execution window is its own: the execution start is the clock
\* reading when its claim succeeds, the duration is the clock reading when its
\* callback returns minus that start, no other step changes either while the
\* job is being processed, and the completion record written for the job
\* holds that start minus the job's scheduled instant and that duration.
C16_OwnExecutionWindow ==
    [][/\ \A p \in Procs, l \in Loops :
            LET rec == loop[p][l]
                rec2 == loop'[p][l]
            IN /\ (rec.pc = "claiming" /\ rec2.pc = "executing") =>
                        rec2.executionStartDate = now
               /\ (rec.pc = "executing" /\ rec2.pc = "completing") =>
                        /\ rec2.job = rec.job
                        /\ rec2.executionStartDate = rec.executionStartDate
                        /\ rec2.durationMs = now - rec.executionStartDate
               /\ (rec.pc = rec2.pc /\ rec.pc \in {"executing", "completing"}) =>
                        rec2 = rec
       /\ \A j \in Jobs :
            (~complete[j].exists /\ complete'[j].exists) =>
                \E p \in Procs, l \in Loops :
                    /\ loop[p][l].pc = "completing" /\ loop[p][l].job = j
                    /\ loop'[p][l].pc # "completing"
                    /\ complete'[j].executionLagMs =
                            loop[p][l].executionStartDate - ScheduledAtOf(j)
                    /\ complete'[j].durationMs = loop[p][l].durationMs
      ]_vars

\* C16 witness: two jobs have been executed in windows that differ: job 1
\* started on time and took one tick, job 2 started two ticks late and took
\* none
C16_Witness ==
    /\ complete[1].exists /\ complete[2].exists
    /\ complete[1].executionLagMs = 0 /\ complete[1].durationMs = 1
    /\ complete[2].executionLagMs = 2 /\ complete[2].durationMs = 0

\* C17, as the specification states it: every candidate a Processor tries to
\* claim is a job of a shard that the Processor's node owns at that moment.
C17_ClaimsOwnedShardsOnly ==
    [][\A p \in Procs, l \in Loops, f \in Faults :
            MarkJobAsRunning(p, l, f) =>
                ShardOf(loop[p][l].docs[loop[p][l].index]) \in owned[p]
      ]_vars

C19_ExactlyOneCollection ==
    \A j \in Jobs :
        LET n == (IF j \in queued THEN 1 ELSE 0)
                 + (IF j \in running THEN 1 ELSE 0)
                 + (IF complete[j].exists THEN 1 ELSE 0)
        IN IF queueResult[j] = "none" THEN n = 0 ELSE n = 1

\* C19 witness: two processors have worked through the same queue: job 1 has
\* been completed by one of them and is in complete only, job 2 is being
\* executed by the other and is in running only
C19_Witness ==
    \E p, q \in Procs :
        /\ p # q
        /\ complete[1].exists /\ 1 \notin running /\ 1 \notin queued
        /\ running = {2} /\ 2 \notin queued /\ ~complete[2].exists
        /\ loop[p][1].pc = "waiting"
        /\ loop[q][1].pc = "executing" /\ loop[q][1].job = 2

\* C20: with every job queued at most once, the callback endpoint is called
\* at most once for a job, and the call is made in the step in which a
\* worker's markJobAsRunning of that job succeeds, by that worker, which from
\* then on is the only one executing the job.
C20_CallbackAtMostOnce ==
    [][\A j \in Jobs :
            /\ posts'[j] <= 1
            /\ posts'[j] # posts[j] =>
                \E p \in Procs, l \in Loops :
                    /\ loop[p][l].pc = "claiming"
                    /\ loop[p][l].docs[loop[p][l].index] = j
                    /\ j \in queued /\ j \notin queued'
                    /\ j \notin running /\ j \in running'
                    /\ loop'[p][l].pc = "executing" /\ loop'[p][l].job = j
                    /\ \A q \in Procs, m \in Loops :
                        (loop'[q][m].pc = "executing" /\ loop'[q][m].job = j)
                            => (q = p /\ m = l)
            /\ \A p \in Procs, l \in Loops :
                (loop[p][l].pc # "executing" /\ loop'[p][l].pc = "executing"
                    /\ loop'[p][l].job = j) => posts'[j] = posts[j] + 1
      ]_vars

\* C20 witness: the callback of a job has been called once, and a second
\* worker, whose claim of that job has failed, has gone on to its next
\* candidate without calling it
C20_Witness ==
    \E p \in Procs, l \in Loops :
        /\ loop[p][l].pc = "claiming" /\ loop[p][l].index = 2
        /\ loop[p][l].at \in {"running", "complete"}
        /\ posts[loop[p][l].docs[1]] = 1
        /\ queueResult[loop[p][l].docs[1]] = "ok"

\* C21, as the specification states it: a closed Processor makes no claim
\* attempt and starts no callback invocation, whatever step its loop was in
\* when close() was called.
C21_NoClaimOnceClosed ==
    [][\A p \in Procs :
            state[p] = "closed" =>
                /\ \A l \in Loops, f \in Faults : ~MarkJobAsRunning(p, l, f)
                /\ \A l \in Loops :
                    loop[p][l].pc # "executing" => loop'[p][l].pc # "executing"
      ]_vars

\* C21, amended: close() stops a Processor at the wait step only.  While the
\* Processor is closed no loop of it starts a wait: a loop that comes to the
\* wait step from a claim or a completion ends with "Processor is not
\* running", and an ended loop stays ended.  A loop that held a batch when
\* close() was called goes on with that batch: it tries the candidates left,
\* and executes and completes the one it claims.
C21_ClosedStopsAtWait ==
    [][\A p \in Procs, l \in Loops :
            LET rec == loop[p][l]
                rec2 == loop'[p][l]
            IN /\ (state'[p] = "closed" /\ rec.pc # "waiting") => rec2.pc # "waiting"
               /\ (state[p] = "closed" /\ state'[p] = "closed"
                    /\ rec.pc \in {"claiming", "completing"} /\ rec2.pc = "stopped") =>
                        rec2.error \in {"Processor is not running",
                                        "completion not recorded"}
               /\ (state[p] = "closed" /\ rec.pc = "claiming" /\ rec2.pc = "claiming"
                    /\ rec2 # rec) =>
                        /\ rec2.docs = rec.docs
                        /\ rec2.index = rec.index + 1
               /\ rec.pc = "stopped" => rec2 = rec
      ]_vars

\* C21 witness: the one loop of a Processor was past its wait when close()
\* was called; it has since claimed and completed a job of its batch and has
\* ended at the wait step
C21_Witness ==
    \E p \in Procs, j \in Jobs :
        /\ state[p] = "closed" /\ nruns[p] = 1 /\ TotalRuns = 1
        /\ loop[p][1] = Stopped("Processor is not running")
        /\ complete[j].exists

\* C22, as the specification states it: however many times run() is called,
\* a Processor has at most one claim loop active and at most one wait
\* subscription pending.
C22_OneLoopPerProcessor ==
    \A p \in Procs :
        /\ Cardinality({l \in Loops : loop[p][l].pc \in
                {"waiting", "claiming", "executing", "completing"}}) <= 1
        /\ Cardinality({l \in Loops : loop[p][l].pc = "waiting" /\ loop[p][l].sub}) <= 1

\* C23, as the specification states it: under weak fairness, with a Processor
\* running, no close(), every callback answering 200 and every completion
\* write succeeding, every job in the queue is eventually in complete.
C23_QueuedJobsComplete ==
    \A j \in Jobs :
        (j \in queued /\ \E p \in Procs : state[p] = "running")
            ~> complete[j].exists

====
